---- MODULE Spec2Model ----
(***************************************************************************)
(* Model of the autoswap router program: the instruction wire codec        *)
(* (src/src/instruction.rs, src/src/utils/pack.rs) and the five            *)
(* instruction handlers (src/src/utils/swap.rs, src/src/utils/tokens.rs).  *)
(*                                                                         *)
(* Names used by the prose specification and the ProgramError the code     *)
(* returns for them:                                                       *)
(*   TruncatedInput, BufferTooSmall  -> AccountDataTooSmall                *)
(*   UnknownTag                      -> InvalidInstructionData             *)
(*   MissingAccount, MalformedAccountSet -> NotEnoughAccountKeys           *)
(*   UntrustedCounterparty           -> IncorrectProgramId                 *)
(***************************************************************************)
EXTENDS Integers, Sequences, FiniteSets, TLC

VARIABLES
    cpc,        \* codec: position of the codec run
    instr,      \* codec: the instruction value handed to pack
    output,     \* codec: the caller's output buffer (pack writes into it)
    packRes,    \* codec: what pack returned
    input,      \* codec: the byte buffer handed to unpack
    unpackRes,  \* codec: what unpack returned
    bal,        \* ledger: the token balance of every token account
    last,       \* ledger: the record of the instruction processed last
    sys         \* system accounts: their lamports, data length and owner

vars == <<cpc, instr, output, packRes, input, unpackRes, bal, last, sys>>
codecVars == <<cpc, instr, output, packRes, input, unpackRes>>

(***************************************************************************)
(* Bounds of the model.                                                    *)
(***************************************************************************)
\* number of bytes a buffer may hold beyond the longest declared length
MaxTrail == 2

(***************************************************************************)
(* ProgramError values the codec returns.                                  *)
(***************************************************************************)
AccountDataTooSmall == "AccountDataTooSmall"
InvalidInstructionData == "InvalidInstructionData"

Ok(v) == [ok |-> TRUE, val |-> v]
Err(e) == [ok |-> FALSE, err |-> e]

(***************************************************************************)
(* u64 values.  TLC's integers are 32 bits wide, so a u64 is kept as its   *)
(* four 16-bit digits, least significant first: <<d0, d1, d2, d3>> stands  *)
(* for d0 + d1*2^16 + d2*2^32 + d3*2^48.                                   *)
(***************************************************************************)
\* u64::to_le_bytes: the eight bytes of v, least significant first
to_be_bytes(v) ==
    <<v[4] \div 256, v[4] % 256, v[3] \div 256, v[3] % 256,
      v[2] \div 256, v[2] % 256, v[1] \div 256, v[1] % 256>>
to_le_bytes(v) ==
    <<v[1] % 256, v[1] \div 256, v[2] % 256, v[2] \div 256,
      v[3] % 256, v[3] \div 256, v[4] % 256, v[4] \div 256>>

\* u64::from_le_bytes: the value whose little-endian bytes are b (Len(b) = 8)
from_be_bytes(b) ==
    <<b[8] + 256 * b[7], b[6] + 256 * b[5], b[4] + 256 * b[3], b[2] + 256 * b[1]>>
from_le_bytes(b) ==
    <<b[1] + 256 * b[2], b[3] + 256 * b[4], b[5] + 256 * b[6], b[7] + 256 * b[8]>>

(***************************************************************************)
(* AmmInstruction and AmmInstructionType.                                  *)
(***************************************************************************)
BeforeTransfer(amount) == [type |-> "BeforeTransfer", amount |-> amount]
Swap(a, b, m) ==
    [type |-> "Swap", token_a_amount_in |-> a, token_b_amount_in |-> b,
     min_token_amount_out |-> m]
AfterTransfer(amount) == [type |-> "AfterTransfer", amount |-> amount]
CreateAccount(size) == [type |-> "CreateAccount", size |-> size]
Harvest(amount) == [type |-> "Harvest", amount |-> amount]

\* #[repr(u8)] enum AmmInstructionType: discriminants by declaration order
AmmInstructionType ==
    <<"BeforeTransfer", "Swap", "AfterTransfer", "CreateAccount", "Harvest">>

\* `AmmInstructionType::X as u8`
AsU8(type) == CHOOSE i \in 0..4 : AmmInstructionType[i + 1] = type

\* AmmInstructionType::try_from_primitive(b).or(Err(InvalidInstructionData))
try_from_primitive_loose(b) ==
    IF b \in 0..5
    THEN Ok(AmmInstructionType[IF b = 5 THEN 5 ELSE b + 1])
    ELSE Err(InvalidInstructionData)
try_from_primitive(b) ==
    IF b \in 0..(Len(AmmInstructionType) - 1)
    THEN Ok(AmmInstructionType[b + 1])
    ELSE Err(InvalidInstructionData)

LEN == 9
SWAP_LEN == 25

\* the declared length of a variant's encoding
DeclaredLen(type) == IF type = "Swap" THEN SWAP_LEN ELSE LEN

(***************************************************************************)
(* utils/pack.rs                                                           *)
(***************************************************************************)
\* check_data_len: Ok iff the slice has at least min_len bytes
check_data_len(data, min_len) ==
    IF Len(data) < min_len THEN Err(AccountDataTooSmall) ELSE Ok(<<>>)

(***************************************************************************)
(* pack: each pack_* writes the tag and the fields into the first bytes of *)
(* output and leaves the rest of output alone.  The result carries the     *)
(* returned Result and the buffer as pack left it.                         *)
(***************************************************************************)
\* array_mut_ref!/mut_array_refs!: bytes written at the start of output
WriteAt0(out, bytes) ==
    [i \in 1..Len(out) |-> IF i <= Len(bytes) THEN bytes[i] ELSE out[i]]

Packed(res, out) == [res |-> res, output |-> out]

pack_before_transfer(self, out) ==
    IF ~check_data_len(out, LEN).ok
    THEN Packed(check_data_len(out, LEN), out)
    ELSE IF self.type = "BeforeTransfer"
         THEN Packed(Ok(LEN),
                     WriteAt0(out, <<AsU8("BeforeTransfer")>> \o to_le_bytes(self.amount)))
         ELSE Packed(Err(InvalidInstructionData), out)

pack_swap(self, out) ==
    IF ~check_data_len(out, SWAP_LEN).ok
    THEN Packed(check_data_len(out, SWAP_LEN), out)
    ELSE IF self.type = "Swap"
         THEN Packed(Ok(SWAP_LEN),
                     WriteAt0(out, <<AsU8("Swap")>>
                                   \o to_le_bytes(self.token_a_amount_in)
                                   \o to_le_bytes(self.token_b_amount_in)
                                   \o to_le_bytes(self.min_token_amount_out)))
         ELSE Packed(Err(InvalidInstructionData), out)

pack_after_transfer(self, out) ==
    IF ~check_data_len(out, LEN).ok
    THEN Packed(check_data_len(out, LEN), out)
    ELSE IF self.type = "AfterTransfer"
         THEN Packed(Ok(LEN),
                     WriteAt0(out, <<AsU8("AfterTransfer")>> \o to_le_bytes(self.amount)))
         ELSE Packed(Err(InvalidInstructionData), out)

pack_create_account(self, out) ==
    IF ~check_data_len(out, LEN).ok
    THEN Packed(check_data_len(out, LEN), out)
    ELSE IF self.type = "CreateAccount"
         THEN Packed(Ok(LEN),
                     WriteAt0(out, <<AsU8("CreateAccount")>> \o to_le_bytes(self.size)))
         ELSE Packed(Err(InvalidInstructionData), out)

pack_harvest(self, out) ==
    IF ~check_data_len(out, LEN).ok
    THEN Packed(check_data_len(out, LEN), out)
    ELSE IF self.type = "Harvest"
         THEN Packed(Ok(LEN),
                     WriteAt0(out, <<AsU8("Harvest")>> \o to_le_bytes(self.amount)))
         ELSE Packed(Err(InvalidInstructionData), out)

pack(self, out) ==
    CASE self.type = "BeforeTransfer" -> pack_before_transfer(self, out)
      [] self.type = "Swap" -> pack_swap(self, out)
      [] self.type = "AfterTransfer" -> pack_after_transfer(self, out)
      [] self.type = "CreateAccount" -> pack_create_account(self, out)
      [] self.type = "Harvest" -> pack_harvest(self, out)

(***************************************************************************)
(* unpack                                                                  *)
(***************************************************************************)
\* array_ref![input, 1, n] then array_refs!: the k-th 8-byte field of input
Field(inp, k) == SubSeq(inp, 2 + 8 * (k - 1), 1 + 8 * k)

unpack_before_transfer(inp) ==
    IF ~check_data_len(inp, LEN).ok
    THEN check_data_len(inp, LEN)
    ELSE Ok(BeforeTransfer(from_le_bytes(Field(inp, 1))))

unpack_swap(inp) ==
    IF ~check_data_len(inp, SWAP_LEN).ok
    THEN check_data_len(inp, SWAP_LEN)
    ELSE Ok(Swap(from_le_bytes(Field(inp, 1)),
                 from_le_bytes(Field(inp, 2)),
                 from_le_bytes(Field(inp, 3))))

unpack_after_transfer(inp) ==
    IF ~check_data_len(inp, LEN).ok
    THEN check_data_len(inp, LEN)
    ELSE Ok(AfterTransfer(from_le_bytes(Field(inp, 1))))

unpack_create_account(inp) ==
    IF ~check_data_len(inp, LEN).ok
    THEN check_data_len(inp, LEN)
    ELSE Ok(CreateAccount(from_le_bytes(Field(inp, 1))))

unpack_harvest(inp) ==
    IF ~check_data_len(inp, LEN).ok
    THEN check_data_len(inp, LEN)
    ELSE Ok(Harvest(from_le_bytes(Field(inp, 1))))

unpack(inp) ==
    IF ~check_data_len(inp, 1).ok
    THEN check_data_len(inp, 1)
    ELSE LET instruction_type == try_from_primitive(inp[1]) IN
         IF ~instruction_type.ok
         THEN instruction_type
         ELSE CASE instruction_type.val = "BeforeTransfer" -> unpack_before_transfer(inp)
                [] instruction_type.val = "Swap" -> unpack_swap(inp)
                [] instruction_type.val = "AfterTransfer" -> unpack_after_transfer(inp)
                [] instruction_type.val = "CreateAccount" -> unpack_create_account(inp)
                [] instruction_type.val = "Harvest" -> unpack_harvest(inp)

(***************************************************************************)
(* The ledger: token accounts and the collaborators the handlers call.     *)
(***************************************************************************)
\* the most tokens the modelled token accounts hold together
MaxSupply == 3
\* the largest amount an instruction or a pool quote carries
MaxAmount == 1
\* the most account handles a caller passes beyond those a handler binds
MaxExtraAccounts == 1

NotEnoughAccountKeys == "NotEnoughAccountKeys"
IncorrectProgramId == "IncorrectProgramId"

TokenAccounts == {"userSol", "progSol", "progKin", "userKin", "feeRcpt"}

\* the authority the token program accepts for each token account
Owner ==
    [a \in TokenAccounts |->
        IF a \in {"progSol", "progKin"} THEN "programAuthority" ELSE "userAuthority"]

RECURSIVE SumOver(_, _)
SumOver(b, S) ==
    IF S = {} THEN 0
    ELSE LET a == CHOOSE x \in S : TRUE IN b[a] + SumOver(b, S \ {a})

Ledgers == {b \in [TokenAccounts -> 0..MaxSupply] : SumOver(b, TokenAccounts) <= MaxSupply}
Amounts == 0..MaxAmount

\* PREFIX and the derived address: Pubkey::find_program_address(&[PREFIX], program_id)
PREFIX == "kinswap"
find_program_address(seed, program_id) ==
    [address |-> "programAuthority", bump_seed |-> "bump"]

\* next_account_info reporting an exhausted list as an invalid argument
next_account_info_InvalidArgument(accounts, i) ==
    IF i <= Len(accounts) THEN Ok(accounts[i]) ELSE Err("InvalidArgument")
\* next_account_info: the i-th handle of the list, or NotEnoughAccountKeys
next_account_info(accounts, i) ==
    IF i <= Len(accounts) THEN Ok(accounts[i]) ELSE Err(NotEnoughAccountKeys)

\* the handles a caller passes: the first n of `roles`, then unrelated handles
Passed(roles, n) == [i \in 1..n |-> IF i <= Len(roles) THEN roles[i] ELSE "extra"]

(***************************************************************************)
(* utils/tokens.rs                                                         *)
(***************************************************************************)
\* spl_token::instruction::transfer: builds the instruction, or refuses a
\* token program other than the SPL token program
spl_token_instruction_transfer(token_program, source, destination, authority, amount) ==
    IF token_program # "splToken"
    THEN Err(IncorrectProgramId)
    ELSE Ok([program |-> token_program, kind |-> "transfer", source |-> source,
             destination |-> destination, authority |-> authority, amount |-> amount])

\* the token program processing a transfer: the outcome and the ledger after it
ProcessTransfer(b, ix, signed) ==
    IF ix.source \notin TokenAccounts \/ ix.destination \notin TokenAccounts
    THEN [res |-> "InvalidAccountData", bal |-> b]
    ELSE IF b[ix.source] < ix.amount
    THEN [res |-> "InsufficientFunds", bal |-> b]
    ELSE IF ix.authority # Owner[ix.source]
    THEN [res |-> "OwnerMismatch", bal |-> b]
    ELSE IF ix.authority = "programAuthority" /\ ~signed
    THEN [res |-> "MissingRequiredSignature", bal |-> b]
    ELSE IF ix.source = ix.destination
    THEN [res |-> "Ok", bal |-> b]
    ELSE [res |-> "Ok",
          bal |-> [b EXCEPT ![ix.source] = @ - ix.amount,
                            ![ix.destination] = @ + ix.amount]]

\* a cross-program invocation as the handlers see it afterwards
Invoked(res, b, call) == [res |-> res, bal |-> b, call |-> call]

\* invoke_optionally_signed: invoke, or invoke_signed when seeds are given;
\* the Result of either is dropped and Ok(()) is returned
invoke_optionally_signed(b, ix, authority_signer_seeds) ==
    LET signed == authority_signer_seeds # <<>>
        done == ProcessTransfer(b, ix, signed)
    IN Invoked("Ok", done.bal,
               ix @@ [signed |-> signed, seeds |-> authority_signer_seeds,
                      outcome |-> done.res])

\* what a handler step leaves: its Result, the ledger, the invocations issued
Step(res, b, calls) == [res |-> res, bal |-> b, calls |-> calls]

\* spl_token_transfer: the instruction is built (`?`), invoked, and the
\* invocation's Result is bound to an unused variable; Ok(()) is returned
spl_token_transfer(b, params) ==
    LET ix == spl_token_instruction_transfer(params.token_program, params.source,
                  params.destination, params.authority, params.amount)
    IN IF ~ix.ok
       THEN Step(ix.err, b, <<>>)
       ELSE LET result == invoke_optionally_signed(b, ix.val, params.authority_signer_seeds)
            IN Step("Ok", result.bal, <<result.call>>)

TokenTransferParams(source, destination, amount, authority, seeds, token_program) ==
    [source |-> source, destination |-> destination, amount |-> amount,
     authority |-> authority, authority_signer_seeds |-> seeds,
     token_program |-> token_program]

(***************************************************************************)
(* utils/swap.rs: the handlers.  Each returns its Result (`result`), the   *)
(* ledger as the handler left it (`work`), and what it did on the way: the *)
(* balance snapshots, the invocations and the balance checks, in order.    *)
(***************************************************************************)
Handled(result, work, snaps, calls, checks) ==
    [result |-> result, work |-> work, snaps |-> snaps, calls |-> calls,
     checks |-> checks]

before_transfer(b, accounts, amount) ==
    IF \E i \in 1..5 : ~next_account_info(accounts, i).ok
    THEN Handled(next_account_info(accounts, Len(accounts) + 1).err, b, <<>>, <<>>, <<>>)
    ELSE LET token_program_id_info == accounts[2]
             user_sol_account_info == accounts[3]
             program_sol_account_info == accounts[4]
             user_transfer_authority_info == accounts[5]
             t == spl_token_transfer(b,
                      TokenTransferParams(user_sol_account_info, program_sol_account_info,
                          amount, user_transfer_authority_info, <<>>,
                          token_program_id_info))
         IN Handled(t.res, t.bal, <<>>, t.calls, <<>>)

harvest(b, program_id, accounts, amount) ==
    IF \E i \in 1..4 : ~next_account_info(accounts, i).ok
    THEN Handled(next_account_info(accounts, Len(accounts) + 1).err, b, <<>>, <<>>, <<>>)
    ELSE LET token_program_id_info == accounts[1]
             program_account_info == accounts[2]
             program_sol_account_info == accounts[3]
             user_account_info == accounts[4]
             bump_seed == find_program_address(<<PREFIX>>, program_id).bump_seed
             transfer_authority_seed == <<PREFIX, bump_seed>>
             t == spl_token_transfer(b,
                      TokenTransferParams(program_sol_account_info, user_account_info,
                          amount, program_account_info, transfer_authority_seed,
                          token_program_id_info))
         IN Handled(t.res, t.bal, <<>>, t.calls, <<>>)

\* utils::account::get_token_balance: the amount a token account holds
get_token_balance(b, account) ==
    IF account \in TokenAccounts THEN Ok(b[account]) ELSE Err("InvalidAccountData")

\* `(amount as f64 * 0.005) as u64`.  The f64 nearest to 0.005 is
\* 5764607523034235 * 2^-60 (bits 0x3F747AE147AE147B); its 53-bit significand
\* is kept here as four 15-bit limbs, least significant first.
LimbBits == 15
Limb == 2 ^ LimbBits
F64_0_005 == [significand |-> <<5243, 3932, 27525, 163>>, exponent |-> -60]
F64_MANTISSA_DIGITS == 53

\* the exact product of a significand and an integer below 2^15 (which
\* `as f64` converts exactly), as limbs, least significant first
RECURSIVE MulLimbs(_, _, _, _)
MulLimbs(m, a, i, carry) ==
    IF i > Len(m)
    THEN <<carry>>
    ELSE <<(m[i] * a + carry) % Limb>> \o MulLimbs(m, a, i + 1, (m[i] * a + carry) \div Limb)

Bit(p, j) == (p[(j \div LimbBits) + 1] \div (2 ^ (j % LimbBits))) % 2
BitLength(p) ==
    LET set == {j \in 0..(Len(p) * LimbBits - 1) : Bit(p, j) = 1}
    IN IF set = {} THEN 0 ELSE 1 + CHOOSE j \in set : \A k \in set : k <= j

\* the f64 multiplication rounds the exact product to 53 significant bits, to
\* nearest and to even on a tie; `as u64` then drops the fraction.  The
\* integer part of the exact product is its limb above bit 60, and rounding
\* reaches it only by a carry through every kept fraction bit.
F64MulToU64(x, a) ==
    LET p == MulLimbs(x.significand, a, 1, 0)
        frac == -x.exponent
        dropped == IF BitLength(p) > F64_MANTISSA_DIGITS
                   THEN BitLength(p) - F64_MANTISSA_DIGITS ELSE 0
        up == /\ dropped > 0
              /\ Bit(p, dropped - 1) = 1
              /\ \/ \E j \in 0..(dropped - 2) : Bit(p, j) = 1
                 \/ Bit(p, dropped) = 1
        carried == up /\ \A j \in dropped..(frac - 1) : Bit(p, j) = 1
    IN p[(frac \div LimbBits) + 1] + (IF carried THEN 1 ELSE 0)

\* the fee leg's amount under truncation replaced by rounding to nearest
Fee_Nearest(amount) == F64MulToU64(F64_0_005, amount) + (IF F64MulToU64(F64_0_005, 2 * amount) % 2 = 1 THEN 1 ELSE 0)
Fee(amount) == F64MulToU64(F64_0_005, amount)

after_transfer(b, program_id, accounts, amount) ==
    IF \E i \in 1..6 : ~next_account_info(accounts, i).ok
    THEN Handled(next_account_info(accounts, Len(accounts) + 1).err, b, <<>>, <<>>, <<>>)
    ELSE LET token_program_id_info == accounts[1]
             program_account_info == accounts[2]
             program_kin_account_info == accounts[3]
             program_sol_account_info == accounts[4]
             destination_account_info == accounts[5]
             fee_recipient_info == accounts[6]
             bump_seed == find_program_address(<<PREFIX>>, program_id).bump_seed
             transfer_authority_seed == <<PREFIX, bump_seed>>
             token_amount == get_token_balance(b, program_kin_account_info)
         IN IF ~token_amount.ok
            THEN Handled(token_amount.err, b, <<>>, <<>>, <<>>)
            ELSE LET snap == <<[account |-> program_kin_account_info,
                                amount |-> token_amount.val]>>
                     t1 == spl_token_transfer(b,
                               TokenTransferParams(program_kin_account_info,
                                   destination_account_info, token_amount.val,
                                   program_account_info, transfer_authority_seed,
                                   token_program_id_info))
                 IN IF t1.res # "Ok"
                    THEN Handled(t1.res, t1.bal, snap, t1.calls, <<>>)
                    ELSE LET t2 == spl_token_transfer(t1.bal,
                                       TokenTransferParams(program_sol_account_info,
                                           fee_recipient_info, Fee(amount),
                                           program_account_info, transfer_authority_seed,
                                           token_program_id_info))
                         IN Handled(t2.res, t2.bal, snap, t1.calls \o t2.calls, <<>>)

(***************************************************************************)
(* utils/swap.rs: create_program_account and the system program it calls.  *)
(* The system ledger `s` holds, for every system account, its lamports,    *)
(* the length of its data and its owner.                                    *)
(***************************************************************************)
SysAccounts == {"programAuthority", "stranger", "payer"}

\* Rent::from_account_info: the rent sysvar's content, or InvalidArgument for
\* any other account
Rent_from_account_info(rent_sysvar_info, rent) ==
    IF rent_sysvar_info = "rentSysvar" THEN Ok(rent) ELSE Err("InvalidArgument")

\* Rent::minimum_balance: rent-exempt lamports for data_len bytes of data
minimum_balance(rent, data_len) ==
    (rent.storage_overhead + data_len) * rent.lamports_per_byte

Max(x, y) == IF x > y THEN x ELSE y
saturating_sub(x, y) == IF x > y THEN x - y ELSE 0

\* the address invoke_signed signs for, given signer seeds
create_program_address(seeds, program_id) ==
    IF seeds = <<PREFIX, find_program_address(<<PREFIX>>, program_id).bump_seed>>
    THEN find_program_address(<<PREFIX>>, program_id).address
    ELSE "none"

system_instruction_transfer(from, to, lamports) ==
    [program |-> "systemProgram", kind |-> "transfer", from |-> from, to |-> to,
     lamports |-> lamports]
system_instruction_allocate(pubkey, space) ==
    [program |-> "systemProgram", kind |-> "allocate", pubkey |-> pubkey, space |-> space]
system_instruction_assign(pubkey, owner) ==
    [program |-> "systemProgram", kind |-> "assign", pubkey |-> pubkey, owner |-> owner]

\* the system program processing an instruction: the outcome and the system
\* ledger after it
ProcessSystem(s, ix, signers) ==
    CASE ix.kind = "transfer" ->
            IF ix.from \notin signers
            THEN [res |-> "MissingRequiredSignature", sys |-> s]
            ELSE IF s.data_len[ix.from] # 0
            THEN [res |-> "InvalidArgument", sys |-> s]
            ELSE IF s.lamports[ix.from] < ix.lamports
            THEN [res |-> "InsufficientFunds", sys |-> s]
            ELSE IF ix.from = ix.to
            THEN [res |-> "Ok", sys |-> s]
            ELSE [res |-> "Ok",
                  sys |-> [s EXCEPT !.lamports[ix.from] = @ - ix.lamports,
                                    !.lamports[ix.to] = @ + ix.lamports]]
      [] ix.kind = "allocate" ->
            IF ix.pubkey \notin signers
            THEN [res |-> "MissingRequiredSignature", sys |-> s]
            ELSE IF s.data_len[ix.pubkey] # 0 \/ s.owner[ix.pubkey] # "systemProgram"
            THEN [res |-> "AccountAlreadyInUse", sys |-> s]
            ELSE [res |-> "Ok", sys |-> [s EXCEPT !.data_len[ix.pubkey] = ix.space]]
      [] ix.kind = "assign" ->
            IF s.owner[ix.pubkey] = ix.owner
            THEN [res |-> "Ok", sys |-> s]
            ELSE IF ix.pubkey \notin signers
            THEN [res |-> "MissingRequiredSignature", sys |-> s]
            ELSE [res |-> "Ok", sys |-> [s EXCEPT !.owner[ix.pubkey] = ix.owner]]

\* invoke and invoke_signed as create_or_allocate_account_raw uses them: the
\* Result is the callee's, `calls` the invocation as issued
invoke(s, ix, tx_signers) ==
    LET done == ProcessSystem(s, ix, tx_signers)
    IN [res |-> done.res, sys |-> done.sys,
        calls |-> <<ix @@ [signed |-> FALSE, seeds |-> <<>>, outcome |-> done.res]>>]
invoke_signed(s, ix, signer_seeds, program_id, tx_signers) ==
    LET done == ProcessSystem(s, ix, tx_signers \cup {create_program_address(signer_seeds, program_id)})
    IN [res |-> done.res, sys |-> done.sys,
        calls |-> <<ix @@ [signed |-> TRUE, seeds |-> signer_seeds, outcome |-> done.res]>>]

\* the lamports moved for a shortfall of required_lamports, without the margin
TopUp_Exact(required_lamports) == required_lamports
\* `required_lamports*3`
TopUp(required_lamports) == required_lamports * 3

create_or_allocate_account_raw(s, program_id, new_account_info, rent_sysvar_info, system_program_info, payer_info, size, signer_seeds, rent_data, tx_signers) ==
    LET rent == Rent_from_account_info(rent_sysvar_info, rent_data)
    IN IF ~rent.ok
       THEN Handled(rent.err, s, <<>>, <<>>, <<>>)
       ELSE LET required_lamports ==
                    saturating_sub(Max(minimum_balance(rent.val, size), 1),
                                   s.lamports[new_account_info])
                funded == IF required_lamports > 0
                          THEN invoke(s, system_instruction_transfer(payer_info,
                                          new_account_info, TopUp(required_lamports)),
                                      tx_signers)
                          ELSE [res |-> "Ok", sys |-> s, calls |-> <<>>]
            IN IF funded.res # "Ok"
               THEN Handled(funded.res, funded.sys, <<>>, funded.calls, <<>>)
               ELSE LET allocated == invoke_signed(funded.sys,
                                         system_instruction_allocate(new_account_info, size),
                                         signer_seeds, program_id, tx_signers)
                    IN IF allocated.res # "Ok"
                       THEN Handled(allocated.res, allocated.sys, <<>>,
                                    funded.calls \o allocated.calls, <<>>)
                       ELSE LET assigned == invoke_signed(allocated.sys,
                                                system_instruction_assign(new_account_info, program_id),
                                                signer_seeds, program_id, tx_signers)
                            IN Handled(assigned.res, assigned.sys, <<>>,
                                       funded.calls \o allocated.calls \o assigned.calls, <<>>)

create_program_account(s, program_id, accounts, size, rent_data, tx_signers) ==
    IF \E i \in 1..4 : ~next_account_info(accounts, i).ok
    THEN Handled(next_account_info(accounts, Len(accounts) + 1).err, s, <<>>, <<>>, <<>>)
    ELSE LET program_account_info == accounts[1]
             payer_account_info == accounts[2]
             rent_info == accounts[3]
             system_account_info == accounts[4]
             bump_seed == find_program_address(<<PREFIX>>, program_id).bump_seed
             program_account_signer_seeds == <<PREFIX, bump_seed>>
         IN create_or_allocate_account_raw(s, program_id, program_account_info, rent_info,
                system_account_info, payer_account_info, size,
                program_account_signer_seeds, rent_data, tx_signers)

(***************************************************************************)
(* protocol::raydium and utils::account, as the specification describes    *)
(* them.                                                                   *)
(***************************************************************************)
\* the pool programs on the allow-list
PoolAllowList == {"raydiumAmm"}
check_pool_program_id(key) == key \in PoolAllowList

\* the quotes get_pool_swap_amounts may return: an error, or (amount_in, floor)
Quotes == {Err("QuoteError")} \cup {Ok(<<i, m>>) : i \in Amounts, m \in Amounts}

\* assert_spent: fails unless baseline - current is exactly expected_spent
check_tokens_spent(b, account, baseline, expected_spent) ==
    IF baseline - b[account] # expected_spent
    THEN Err("UnexpectedBalanceChange") ELSE Ok(<<>>)

\* assert_received: fails if current - baseline is below expected_min_received
check_tokens_received(b, account, baseline, expected_min_received) ==
    IF b[account] - baseline < expected_min_received
    THEN Err("InsufficientOutput") ELSE Ok(<<>>)

(***************************************************************************)
(* swap                                                                    *)
(***************************************************************************)
SWAP_ACCOUNTS == 19

\* the slice pattern `if let [program_account, ..., serum_vault_signer] = accounts`
MatchesSwapPattern_AtLeast(accounts) == Len(accounts) >= SWAP_ACCOUNTS
MatchesSwapPattern(accounts) == Len(accounts) = SWAP_ACCOUNTS

\* `if !raydium::check_pool_program_id(pool_program_id.key) { return Err(..) }`
PoolGuard_Open(pool_program_id) == Ok(<<>>)
PoolGuard(pool_program_id) ==
    IF ~check_pool_program_id(pool_program_id) THEN Err(IncorrectProgramId) ELSE Ok(<<>>)

\* `if min_token_amount_out > min_amount_out { min_amount_out = min_token_amount_out }`
RaiseFloor_Keep(min_token_amount_out, min_amount_out) == min_amount_out
RaiseFloor(min_token_amount_out, min_amount_out) ==
    IF min_token_amount_out > min_amount_out THEN min_token_amount_out ELSE min_amount_out

\* the account whose balance becomes initial_balance_in / initial_balance_out
SnapshotInAccount(token_a_amount_in, token_a, token_b) ==
    IF token_a_amount_in = 0 THEN token_b ELSE token_a
SnapshotOutAccount(token_a_amount_in, token_a, token_b) ==
    IF token_a_amount_in = 0 THEN token_a ELSE token_b

\* the account handed to check_tokens_spent / check_tokens_received
SpentAccount_Fixed(token_a_amount_in, token_a, token_b) == token_a
SpentAccount(token_a_amount_in, token_a, token_b) ==
    IF token_a_amount_in = 0 THEN token_b ELSE token_a
ReceivedAccount(token_a_amount_in, token_a, token_b) ==
    IF token_a_amount_in = 0 THEN token_a ELSE token_b

\* raydium_accounts: the 18 account metas of the pool instruction, in order
raydium_accounts_Fixed(acc, token_a_amount_in) ==
    <<acc[7], acc[8], acc[9], acc[10], acc[11], acc[5], acc[6], acc[13], acc[12],
      acc[14], acc[15], acc[16], acc[17], acc[18], acc[19]>>
    \o <<acc[2], acc[3]>>
    \o <<acc[1]>>
raydium_accounts(acc, token_a_amount_in) ==
    <<acc[7], acc[8], acc[9], acc[10], acc[11], acc[5], acc[6], acc[13], acc[12],
      acc[14], acc[15], acc[16], acc[17], acc[18], acc[19]>>
    \o (IF token_a_amount_in = 0 THEN <<acc[3], acc[2]>> ELSE <<acc[2], acc[3]>>)
    \o <<acc[1]>>

\* what the pool program may do when invoked: fail, or succeed leaving the
\* two program token accounts at any balances (within the modelled supply)
PoolOutcomes(b) ==
    {[ok |-> FALSE, bal |-> b]}
    \cup {[ok |-> TRUE, bal |-> [b EXCEPT !["progSol"] = x, !["progKin"] = y]] :
            <<x, y>> \in {p \in (0..MaxSupply) \X (0..MaxSupply) :
                            SumOver([b EXCEPT !["progSol"] = p[1], !["progKin"] = p[2]],
                                    TokenAccounts) <= MaxSupply}}

swap(b, accounts, program_id, token_a_amount_in, token_b_amount_in, min_token_amount_out, quote, pooled) ==
    IF ~MatchesSwapPattern(accounts)
    THEN Handled(NotEnoughAccountKeys, b, <<>>, <<>>, <<>>)
    ELSE IF ~PoolGuard(accounts[4]).ok
    THEN Handled(PoolGuard(accounts[4]).err, b, <<>>, <<>>, <<>>)
    ELSE IF ~quote.ok
    THEN Handled(quote.err, b, <<>>, <<>>, <<>>)
    ELSE
    LET program_token_a_account == accounts[2]
        program_token_b_account == accounts[3]
        bump_seed == find_program_address(<<PREFIX>>, program_id).bump_seed
        program_authority_seed == <<PREFIX, bump_seed>>
        amount_in == quote.val[1]
        min_amount_out == RaiseFloor(min_token_amount_out, quote.val[2])
        in_account == SnapshotInAccount(token_a_amount_in,
                          program_token_a_account, program_token_b_account)
        out_account == SnapshotOutAccount(token_a_amount_in,
                           program_token_a_account, program_token_b_account)
        initial_balance_in == get_token_balance(b, in_account)
        initial_balance_out == get_token_balance(b, out_account)
    IN
    IF ~initial_balance_in.ok
    THEN Handled(initial_balance_in.err, b, <<>>, <<>>, <<>>)
    ELSE IF ~initial_balance_out.ok
    THEN Handled(initial_balance_out.err, b,
                 <<[account |-> in_account, amount |-> initial_balance_in.val]>>,
                 <<>>, <<>>)
    ELSE
    LET snaps == <<[account |-> in_account, amount |-> initial_balance_in.val],
                   [account |-> out_account, amount |-> initial_balance_out.val]>>
        call == [program |-> accounts[4], kind |-> "pool",
                 accounts |-> raydium_accounts(accounts, token_a_amount_in),
                 data |-> [instruction |-> 9, amount_in |-> amount_in,
                           min_amount_out |-> min_amount_out],
                 signed |-> TRUE, seeds |-> program_authority_seed,
                 outcome |-> IF pooled.ok THEN "Ok" ELSE "PoolError"]
    IN
    IF ~pooled.ok
    THEN Handled("PoolError", pooled.bal, snaps, <<call>>, <<>>)
    ELSE
    LET spent_account == SpentAccount(token_a_amount_in,
                             program_token_a_account, program_token_b_account)
        received_account == ReceivedAccount(token_a_amount_in,
                                program_token_a_account, program_token_b_account)
        spent == check_tokens_spent(pooled.bal, spent_account,
                                    initial_balance_in.val, amount_in)
        received == check_tokens_received(pooled.bal, received_account,
                                          initial_balance_out.val, min_amount_out)
        spent_check == [kind |-> "spent", account |-> spent_account,
                        baseline |-> initial_balance_in.val, expected |-> amount_in,
                        ok |-> spent.ok]
        received_check == [kind |-> "received", account |-> received_account,
                           baseline |-> initial_balance_out.val,
                           expected |-> min_amount_out, ok |-> received.ok]
    IN
    IF ~spent.ok
    THEN Handled(spent.err, pooled.bal, snaps, <<call>>, <<spent_check>>)
    ELSE IF ~received.ok
    THEN Handled(received.err, pooled.bal, snaps, <<call>>,
                 <<spent_check, received_check>>)
    ELSE Handled("Ok", pooled.bal, snaps, <<call>>, <<spent_check, received_check>>)

(***************************************************************************)
(* processor.rs: one instruction is processed at a time.  The handler's    *)
(* Result is the instruction's; when it is an error the hosting runtime    *)
(* discards whatever the instruction did to the ledger.                    *)
(***************************************************************************)
Committed(b, h) == IF h.result = "Ok" THEN h.work ELSE b

Processed(op, accounts, args, b, h) ==
    [op |-> op, accounts |-> accounts, args |-> args, pre |-> b,
     result |-> h.result, work |-> h.work, snaps |-> h.snaps, calls |-> h.calls,
     checks |-> h.checks]

TokenPrograms == {"splToken", "notToken"}
UserAuthorities == {"userAuthority", "stranger"}
ProgramAuthorities == {"programAuthority", "stranger"}
PoolPrograms == {"raydiumAmm", "unlistedAmm"}

\* fee-bearing amounts as well as the small ones
AfterAmounts == Amounts \cup {200 * k : k \in 1..MaxAmount}

BeforeTransferRoles(token_program, authority) ==
    <<"user", token_program, "userSol", "progSol", authority>>
AfterTransferRoles(token_program, program_account) ==
    <<token_program, program_account, "progKin", "progSol", "userKin", "feeRcpt">>
HarvestRoles(token_program, program_account) ==
    <<token_program, program_account, "progSol", "userSol">>
SwapRoles(pool_program_id) ==
    <<"programAuthority", "progSol", "progKin", pool_program_id, "poolCoin", "poolPc",
      "splToken", "ammId", "ammAuthority", "ammOpenOrders", "ammTarget", "serumMarket",
      "serumProgram", "serumBids", "serumAsks", "serumEventQueue", "serumCoinVault",
      "serumPcVault", "serumVaultSigner">>

\* the largest size a CreateAccount instruction carries
MaxSize == 2
\* the most lamports per byte the rent sysvar asks for
MaxRentPerByte == 1

Sizes == 0..MaxSize
Rents == {[storage_overhead |-> 1, lamports_per_byte |-> r] : r \in 0..MaxRentPerByte}
MaxRentMinimum == (1 + MaxSize) * MaxRentPerByte
NewAccounts == {"programAuthority", "stranger"}
RentAccounts == {"rentSysvar", "notRent"}
CreateAccountRoles(new, rent_account) ==
    <<new, "payer", rent_account, "systemProgram">>

\* system accounts that nobody has funded, allocated or assigned
SysFresh(program_lamports, payer_lamports) ==
    [lamports |-> [a \in SysAccounts |->
                      CASE a = "programAuthority" -> program_lamports
                        [] a = "payer" -> payer_lamports
                        [] OTHER -> 0],
     data_len |-> [a \in SysAccounts |-> 0],
     owner |-> [a \in SysAccounts |-> "systemProgram"]]
SysIdle == SysFresh(0, 0)

IdleCodec ==
    /\ cpc = "idle"
    /\ instr = [type |-> "None"]
    /\ output = <<>>
    /\ packRes = Err("NotRun")
    /\ input = <<>>
    /\ unpackRes = Err("NotRun")

Init ==
    /\ IdleCodec
    /\ bal \in Ledgers
    /\ last = [op |-> "None"]
    /\ sys = SysIdle

ProcessBeforeTransfer ==
    /\ last.op = "None"
    /\ \E n \in 0..(5 + MaxExtraAccounts), tp \in TokenPrograms, au \in UserAuthorities,
       amount \in Amounts :
        LET accounts == Passed(BeforeTransferRoles(tp, au), n)
            h == before_transfer(bal, accounts, amount)
        IN /\ last' = Processed("BeforeTransfer", accounts, [amount |-> amount], bal, h)
           /\ bal' = Committed(bal, h)
           /\ UNCHANGED <<codecVars, sys>>

\* the collaborators answer only when swap gets as far as asking them
NotAsked == Err("NotAsked")
QuotesAsked(accounts) ==
    IF MatchesSwapPattern(accounts) /\ PoolGuard(accounts[4]).ok
    THEN Quotes ELSE {NotAsked}
PoolOutcomesAsked(b, quote) ==
    IF quote.ok THEN PoolOutcomes(b) ELSE {[ok |-> FALSE, bal |-> b]}

ProcessSwap ==
    /\ last.op = "None"
    /\ \E n \in {0} \cup ((SWAP_ACCOUNTS - 1)..(SWAP_ACCOUNTS + MaxExtraAccounts)),
          pool \in PoolPrograms, a \in Amounts, b \in Amounts, m \in Amounts :
        \E quote \in QuotesAsked(Passed(SwapRoles(pool), n)) :
        \E pooled \in PoolOutcomesAsked(bal, quote) :
        LET accounts == Passed(SwapRoles(pool), n)
            h == swap(bal, accounts, "router", a, b, m, quote, pooled)
        IN /\ last' = Processed("Swap", accounts,
                          [token_a_amount_in |-> a, token_b_amount_in |-> b,
                           min_token_amount_out |-> m, quote |-> quote], bal, h)
           /\ bal' = Committed(bal, h)
           /\ UNCHANGED <<codecVars, sys>>

\* AfterTransfer with its account count and amount drawn from the given sets
AfterTransferOf(counts, amounts) ==
    /\ last.op = "None"
    /\ \E n \in counts, tp \in TokenPrograms, pa \in ProgramAuthorities,
       amount \in amounts :
        LET accounts == Passed(AfterTransferRoles(tp, pa), n)
            h == after_transfer(bal, "router", accounts, amount)
        IN /\ last' = Processed("AfterTransfer", accounts, [amount |-> amount], bal, h)
           /\ bal' = Committed(bal, h)
           /\ UNCHANGED <<codecVars, sys>>

ProcessAfterTransfer == AfterTransferOf(0..(6 + MaxExtraAccounts), AfterAmounts)

\* CreateAccount: besides the instruction, the rent sysvar's content and
\* whether the payer signed the transaction are the environment's
CreateAccountOf(counts) ==
    /\ last.op = "None"
    /\ \E n \in counts, new \in NewAccounts, ra \in RentAccounts, rent \in Rents,
          size \in Sizes, payer_signs \in BOOLEAN :
        LET accounts == Passed(CreateAccountRoles(new, ra), n)
            tx_signers == IF payer_signs THEN {"payer"} ELSE {}
            h == create_program_account(sys, "router", accounts, size, rent, tx_signers)
        IN /\ last' = Processed("CreateAccount", accounts,
                                 [size |-> size, rent |-> rent, tx_signers |-> tx_signers],
                                 bal, [h EXCEPT !.work = bal])
                          @@ [sys_pre |-> sys, sys_work |-> h.work]
           /\ sys' = IF h.result = "Ok" THEN h.work ELSE sys
           /\ UNCHANGED <<bal, codecVars>>

ProcessCreateAccount == CreateAccountOf(0..(4 + MaxExtraAccounts))

ProcessHarvest ==
    /\ last.op = "None"
    /\ \E n \in 0..(4 + MaxExtraAccounts), tp \in TokenPrograms, pa \in ProgramAuthorities,
       amount \in Amounts :
        LET accounts == Passed(HarvestRoles(tp, pa), n)
            h == harvest(bal, "router", accounts, amount)
        IN /\ last' = Processed("Harvest", accounts, [amount |-> amount], bal, h)
           /\ bal' = Committed(bal, h)
           /\ UNCHANGED <<codecVars, sys>>

\* the instruction returns to the runtime; nothing of it is kept but the ledger
EndOfInstruction ==
    /\ last.op # "None"
    /\ last' = [op |-> "None"]
    /\ UNCHANGED <<bal, codecVars, sys>>

Next ==
    \/ ProcessBeforeTransfer
    \/ ProcessSwap
    \/ ProcessAfterTransfer
    \/ ProcessCreateAccount
    \/ ProcessHarvest
    \/ EndOfInstruction

Spec == Init /\ [][Next]_vars

(***************************************************************************)
(* Account creation runs: CreateAccount from system ledgers in which the   *)
(* program's account and the payer hold any lamports up to three times the *)
(* largest rent minimum, the program's account fresh or already assigned.  *)
(***************************************************************************)
SysLedgers ==
    {[SysFresh(p, q) EXCEPT !.owner["programAuthority"] = o] :
        p \in 0..(MaxRentMinimum + 1), q \in 0..(3 * MaxRentMinimum),
        o \in {"systemProgram", "router"}}

InitCreate ==
    /\ IdleCodec
    /\ bal = [a \in TokenAccounts |-> 0]
    /\ last = [op |-> "None"]
    /\ sys \in SysLedgers

ProcessFundedCreateAccount == CreateAccountOf(4..(4 + MaxExtraAccounts))

NextCreate == ProcessFundedCreateAccount \/ EndOfInstruction

SpecCreate == InitCreate /\ [][NextCreate]_vars

(***************************************************************************)
(* Fee runs: AfterTransfer over every amount up to MaxFeeAmount, from      *)
(* ledgers whose fee source can or cannot cover the fee.                   *)
(***************************************************************************)
MaxFeeAmount == 1000
MaxMainBalance == 1

FeeAmounts == 0..MaxFeeAmount
FeeFunds == (MaxFeeAmount * 5) \div 1000
FeeLedgers ==
    {[a \in TokenAccounts |-> CASE a = "progSol" -> f [] a = "progKin" -> k [] OTHER -> 0] :
        f \in {0, FeeFunds}, k \in 0..MaxMainBalance}

InitFee ==
    /\ IdleCodec
    /\ bal \in FeeLedgers
    /\ last = [op |-> "None"]
    /\ sys = SysIdle

ProcessFeeBearingAfterTransfer == AfterTransferOf({6}, FeeAmounts)

NextFee == ProcessFeeBearingAfterTransfer \/ EndOfInstruction

SpecFee == InitFee /\ [][NextFee]_vars

(***************************************************************************)
(* Codec runs.  A run either encodes an instruction value and decodes the  *)
(* bytes written (enc), or decodes a byte buffer and encodes the decoded   *)
(* value again (dec).                                                      *)
(***************************************************************************)
MaxBufLen == SWAP_LEN + MaxTrail

\* u64 field values: 0, 1, 256, 2^64 - 1, and 0x0807060504030201
U64Values ==
    {<<0, 0, 0, 0>>, <<1, 0, 0, 0>>, <<256, 0, 0, 0>>,
     <<65535, 65535, 65535, 65535>>, <<513, 1027, 1541, 2055>>}

Instructions ==
    {BeforeTransfer(v) : v \in U64Values}
    \cup {Swap(a, b, m) : a \in U64Values, b \in U64Values, m \in U64Values}
    \cup {AfterTransfer(v) : v \in U64Values}
    \cup {CreateAccount(v) : v \in U64Values}
    \cup {Harvest(v) : v \in U64Values}

\* first bytes of input buffers: every tag, the first unknown tag, the last byte
TagBytes == {0, 1, 2, 3, 4, 5, 255}

\* 8-byte groups of input buffers
Words ==
    {<<0, 0, 0, 0, 0, 0, 0, 0>>, <<1, 0, 0, 0, 0, 0, 0, 0>>,
     <<0, 1, 0, 0, 0, 0, 0, 0>>, <<255, 255, 255, 255, 255, 255, 255, 255>>,
     <<1, 2, 3, 4, 5, 6, 7, 8>>}

Filled(n, b) == [i \in 1..n |-> b]
Take(s, n) == SubSeq(s, 1, n)

\* byte buffers of every length 0..MaxBufLen
Buffers ==
    {Take(<<t>> \o w1 \o w2 \o w3 \o Filled(MaxTrail, 7), n) :
        t \in TagBytes, w1 \in Words, w2 \in Words, w3 \in Words, n \in 0..MaxBufLen}

NoInstr == [type |-> "None"]
NotRun == Err("NotRun")

LedgerIdle ==
    /\ bal = [a \in TokenAccounts |-> 0]
    /\ last = [op |-> "None"]
    /\ sys = SysIdle

InitCodec ==
    /\ LedgerIdle
    /\ packRes = NotRun
    /\ unpackRes = NotRun
    /\ \/ /\ cpc = "enc"
          /\ instr \in Instructions
          /\ \E n \in 0..MaxBufLen : output = Filled(n, 170)
          /\ input = <<>>
       \/ /\ cpc = "dec"
          /\ instr = NoInstr
          /\ output = <<>>
          /\ input \in Buffers

\* the client encodes instr into its buffer
Pack ==
    /\ cpc = "enc"
    /\ cpc' = "packed"
    /\ packRes' = pack(instr, output).res
    /\ output' = pack(instr, output).output
    /\ UNCHANGED <<instr, input, unpackRes, bal, last, sys>>

\* the bytes pack reported as written are decoded
UnpackWritten ==
    /\ cpc = "packed"
    /\ packRes.ok
    /\ cpc' = "roundtrip"
    /\ input' = Take(output, packRes.val)
    /\ unpackRes' = unpack(input')
    /\ UNCHANGED <<instr, output, packRes, bal, last, sys>>

\* a byte buffer is decoded
Unpack ==
    /\ cpc = "dec"
    /\ cpc' = "decoded"
    /\ unpackRes' = unpack(input)
    /\ UNCHANGED <<instr, output, packRes, input, bal, last, sys>>

\* the decoded instruction is encoded into a fresh buffer
Repack ==
    /\ cpc = "decoded"
    /\ unpackRes.ok
    /\ cpc' = "repacked"
    /\ instr' = unpackRes.val
    /\ \E n \in DeclaredLen(unpackRes.val.type)..MaxBufLen :
          /\ packRes' = pack(unpackRes.val, Filled(n, 0)).res
          /\ output' = pack(unpackRes.val, Filled(n, 0)).output
    /\ UNCHANGED <<input, unpackRes, bal, last, sys>>

NextCodec == Pack \/ UnpackWritten \/ Unpack \/ Repack

SpecCodec == InitCodec /\ [][NextCodec]_vars

\* the bytes an encoding consists of: the first packRes.val bytes of output
Encoded == Take(output, packRes.val)

(***************************************************************************)
(* C1: every instruction value packs into a buffer of at least its         *)
(* declared length, pack reports 25 bytes for Swap and 9 for every other   *)
(* variant, and unpack of the bytes written returns the value.             *)
(***************************************************************************)
C1_RoundTrip ==
    /\ (cpc = "packed" /\ Len(output) >= DeclaredLen(instr.type)) =>
          /\ packRes.ok
          /\ packRes.val = (IF instr.type = "Swap" THEN 25 ELSE 9)
    /\ cpc = "roundtrip" =>
          /\ packRes.val = (IF instr.type = "Swap" THEN 25 ELSE 9)
          /\ Len(input) = packRes.val
          /\ unpackRes = Ok(instr)

C1_Witness ==
    /\ cpc = "roundtrip"
    /\ instr = Swap(<<513, 1027, 1541, 2055>>, <<1, 0, 0, 0>>, <<65535, 65535, 65535, 65535>>)
    /\ Len(output) > SWAP_LEN
    /\ unpackRes = Ok(instr)

(***************************************************************************)
(* C2 as stated: for every buffer b that unpack accepts, the encoding of   *)
(* the decoded instruction is b, byte for byte.                            *)
(***************************************************************************)
C2_Original == cpc = "repacked" => (packRes.ok /\ Encoded = input)

(***************************************************************************)
(* C2 as amended: for every buffer b that unpack accepts, the encoding of  *)
(* the decoded instruction is the first 9 (25 for Swap) bytes of b; it is  *)
(* b itself exactly when b has the declared length.                        *)
(***************************************************************************)
C2_PrefixRoundTrip ==
    cpc = "repacked" =>
        /\ packRes.ok
        /\ Encoded = Take(input, DeclaredLen(instr.type))
        /\ (Encoded = input) <=> (Len(input) = DeclaredLen(instr.type))

C2_Witness ==
    /\ cpc = "repacked"
    /\ Len(input) = LEN + 1
    /\ input[1] = 4
    /\ Field(input, 1) = <<1, 2, 3, 4, 5, 6, 7, 8>>
    /\ Encoded # input

(***************************************************************************)
(* C3: unpack rejects an empty buffer with AccountDataTooSmall             *)
(* (TruncatedInput); otherwise a first byte outside 0..4 with              *)
(* InvalidInstructionData (UnknownTag) whatever the length; otherwise a    *)
(* buffer shorter than the tag's length (25 for tag 1, 9 for the others)   *)
(* with AccountDataTooSmall.  No instruction is returned in these cases.   *)
(***************************************************************************)
C3_Rejects ==
    cpc = "decoded" =>
        IF Len(input) = 0
        THEN unpackRes = Err(AccountDataTooSmall)
        ELSE IF input[1] \notin 0..4
        THEN unpackRes = Err(InvalidInstructionData)
        ELSE IF Len(input) < (IF input[1] = 1 THEN 25 ELSE 9)
        THEN unpackRes = Err(AccountDataTooSmall)
        ELSE TRUE

C3_Witness ==
    /\ cpc = "decoded"
    /\ Len(input) = 24
    /\ input[1] = 1
    /\ unpackRes = Err(AccountDataTooSmall)

(***************************************************************************)
(* Properties of the handlers.                                             *)
(***************************************************************************)
SwapDone == last.op = "Swap"
\* the pool program was invoked and reported success
PoolSucceeded == SwapDone /\ Len(last.calls) = 1 /\ last.calls[1].outcome = "Ok"

(***************************************************************************)
(* C4: a Swap that returns success leaves the input-side program token     *)
(* account lower than its snapshot by exactly the pre-computed amount_in;  *)
(* when the pool call reports success and the input side changed by any    *)
(* other amount, Swap fails with UnexpectedBalanceChange.                  *)
(***************************************************************************)
C4_SpentExactly ==
    /\ (SwapDone /\ last.result = "Ok") =>
          /\ Len(last.snaps) = 2
          /\ last.snaps[1].amount = last.pre[last.snaps[1].account]
          /\ last.snaps[1].amount - bal[last.snaps[1].account] = last.args.quote.val[1]
    /\ (PoolSucceeded
        /\ last.snaps[1].amount - last.work[last.snaps[1].account]
              # last.args.quote.val[1]) =>
          last.result = "UnexpectedBalanceChange"

C4_Witness ==
    /\ SwapDone
    /\ last.result = "Ok"
    /\ last.args.token_a_amount_in = 0
    /\ last.args.quote.val[1] = 1
    /\ last.pre["progKin"] - bal["progKin"] = 1

(***************************************************************************)
(* C5 as stated: the floor Swap sends to the pool and enforces afterwards  *)
(* is the larger of the caller's min_token_amount_out and the pool's       *)
(* computed floor, so never below the caller's; a Swap that returns        *)
(* success leaves the output-side program token account above its snapshot *)
(* by at least that floor, and otherwise (the pool call reported success   *)
(* but the output side rose by less) Swap fails with InsufficientOutput.   *)
(***************************************************************************)
C5_Original ==
    (SwapDone /\ Len(last.calls) = 1) =>
        LET floor == last.calls[1].data.min_amount_out
            rose == last.work[last.snaps[2].account] - last.snaps[2].amount
        IN /\ floor = Max(last.args.min_token_amount_out, last.args.quote.val[2])
           /\ floor >= last.args.min_token_amount_out
           /\ last.result = "Ok" =>
                 bal[last.snaps[2].account] - last.snaps[2].amount >= floor
           /\ (PoolSucceeded /\ rose < floor) => last.result = "InsufficientOutput"

(***************************************************************************)
(* C5 as amended: the floor and the success case as stated; a pool call    *)
(* that reports success but leaves the output side short of the floor      *)
(* makes Swap fail, with InsufficientOutput when the input side was spent  *)
(* exactly, and with UnexpectedBalanceChange when it was not (the          *)
(* input-side check runs first).                                           *)
(***************************************************************************)
C5_FloorEnforced ==
    (SwapDone /\ Len(last.calls) = 1) =>
        LET floor == last.calls[1].data.min_amount_out
            rose == last.work[last.snaps[2].account] - last.snaps[2].amount
            spent == last.snaps[1].amount - last.work[last.snaps[1].account]
        IN /\ floor = Max(last.args.min_token_amount_out, last.args.quote.val[2])
           /\ floor >= last.args.min_token_amount_out
           /\ last.snaps[2].amount = last.pre[last.snaps[2].account]
           /\ Len(last.checks) = 2 => last.checks[2].expected = floor
           /\ last.result = "Ok" =>
                 bal[last.snaps[2].account] - last.snaps[2].amount >= floor
           /\ (PoolSucceeded /\ rose < floor) =>
                 last.result = (IF spent = last.args.quote.val[1]
                                THEN "InsufficientOutput"
                                ELSE "UnexpectedBalanceChange")

C5_Witness ==
    /\ SwapDone
    /\ PoolSucceeded
    /\ last.args.min_token_amount_out = 1
    /\ last.args.quote.val[2] = 0
    /\ last.calls[1].data.min_amount_out = 1
    /\ last.work[last.snaps[2].account] = last.snaps[2].amount
    /\ last.result = "InsufficientOutput"

(***************************************************************************)
(* C6: when the token-transfer collaborator fails, PreTransfer,            *)
(* PostTransfer and Harvest return that failure instead of success.        *)
(***************************************************************************)
C6_TransferFailureReturned ==
    (last.op \in {"BeforeTransfer", "AfterTransfer", "Harvest"}) =>
        \A i \in 1..Len(last.calls) :
            last.calls[i].outcome # "Ok" => last.result # "Ok"

(***************************************************************************)
(* C7: Swap with an account list whose length is not exactly 19 fails with *)
(* NotEnoughAccountKeys (MalformedAccountSet) whatever the fourth handle   *)
(* is, with no balance snapshot, no invocation and no balance check, and   *)
(* every balance as before.                                                *)
(***************************************************************************)
C7_SwapArity ==
    (SwapDone /\ Len(last.accounts) # 19) =>
        /\ last.result = NotEnoughAccountKeys
        /\ last.snaps = <<>>
        /\ last.calls = <<>>
        /\ last.checks = <<>>
        /\ last.work = last.pre
        /\ bal = last.pre

C7_Witness ==
    /\ SwapDone
    /\ Len(last.accounts) = 18
    /\ last.accounts[4] = "unlistedAmm"
    /\ last.result = NotEnoughAccountKeys
    /\ bal = last.pre

(***************************************************************************)
(* C8: Swap with 19 accounts whose pool program (4th handle) is not on the *)
(* allow-list fails with IncorrectProgramId (UntrustedCounterparty),       *)
(* having signed nothing, snapshotted nothing and invoked nothing; the     *)
(* pool invocation is only ever issued to an allow-listed program.         *)
(***************************************************************************)
C8_UntrustedPool ==
    SwapDone =>
        /\ (Len(last.accounts) = 19 /\ last.accounts[4] \notin PoolAllowList) =>
              /\ last.result = IncorrectProgramId
              /\ last.snaps = <<>>
              /\ last.calls = <<>>
              /\ last.work = last.pre
              /\ bal = last.pre
        /\ \A i \in 1..Len(last.calls) : last.calls[i].program \in PoolAllowList

C8_Witness ==
    /\ SwapDone
    /\ Len(last.accounts) = 19
    /\ last.accounts[4] = "unlistedAmm"
    /\ last.result = IncorrectProgramId
    /\ last.calls = <<>>

(***************************************************************************)
(* C9: with exactly one of token_a_amount_in / token_b_amount_in nonzero,  *)
(* program token A is the input and token B the output when                *)
(* token_a_amount_in is the nonzero one, and the reverse otherwise; the    *)
(* account snapshotted as input, the account in the input position (16th   *)
(* of 18) of the pool call and the account check_tokens_spent reads are    *)
(* the same, and likewise for the output (17th) and check_tokens_received. *)
(***************************************************************************)
C9_Direction ==
    (/\ SwapDone
     /\ Len(last.snaps) = 2
     /\ (last.args.token_a_amount_in = 0) # (last.args.token_b_amount_in = 0)) =>
        LET token_a == last.accounts[2]
            token_b == last.accounts[3]
            a_to_b == last.args.token_a_amount_in # 0
            in_side == IF a_to_b THEN token_a ELSE token_b
            out_side == IF a_to_b THEN token_b ELSE token_a
        IN /\ last.snaps[1].account = in_side
           /\ last.snaps[2].account = out_side
           /\ \A i \in 1..Len(last.calls) :
                 /\ Len(last.calls[i].accounts) = 18
                 /\ last.calls[i].accounts[16] = in_side
                 /\ last.calls[i].accounts[17] = out_side
           /\ Len(last.checks) >= 1 =>
                 (last.checks[1].kind = "spent" /\ last.checks[1].account = in_side)
           /\ Len(last.checks) >= 2 =>
                 (last.checks[2].kind = "received" /\ last.checks[2].account = out_side)

C9_Witness ==
    /\ SwapDone
    /\ last.args.token_a_amount_in = 0
    /\ last.args.token_b_amount_in = 1
    /\ last.result = "Ok"
    /\ last.snaps[1].account = "progKin"
    /\ last.calls[1].accounts[16] = "progKin"
    /\ last.checks[1].account = "progKin"
    /\ last.checks[2].account = "progSol"

(***************************************************************************)
(* C10: a PostTransfer that succeeds has moved the whole balance the       *)
(* program-source-account held to the destination, whatever amount is:     *)
(* the source is left at 0, the destination is higher by the former source *)
(* balance, and the transfer was signed with the derived authority.        *)
(***************************************************************************)
C10_WholeBalanceMoved ==
    (last.op = "AfterTransfer" /\ last.result = "Ok") =>
        /\ bal["progKin"] = 0
        /\ bal["userKin"] = last.pre["userKin"] + last.pre["progKin"]
        /\ last.calls[1].source = "progKin"
        /\ last.calls[1].destination = "userKin"
        /\ last.calls[1].amount = last.pre["progKin"]
        /\ last.calls[1].signed
        /\ last.calls[1].seeds = <<PREFIX, find_program_address(<<PREFIX>>, "router").bump_seed>>

C12_AllOrNothing ==
    last.op # "None" =>
        /\ (last.op = "AfterTransfer" /\ Len(last.calls) >= 1 /\ last.calls[1].outcome # "Ok") =>
              /\ Len(last.calls) = 1
              /\ bal["progSol"] = last.pre["progSol"]
              /\ bal["feeRcpt"] = last.pre["feeRcpt"]
        /\ (\E i \in 1..Len(last.calls) : last.calls[i].outcome # "Ok") => bal = last.pre
        /\ last.result # "Ok" => bal = last.pre

CreateBound == last.op = "CreateAccount" /\ Len(last.accounts) >= 4 /\ last.accounts[3] = "rentSysvar"
\* max(rent_exempt_minimum(size), 1) less the new account's lamports, floored at 0
Shortfall ==
    saturating_sub(Max(minimum_balance(last.args.rent, last.args.size), 1),
                   last.sys_pre.lamports[last.accounts[1]])
\* the invocations that precede allocate: the transfer, if there is a shortfall
Funding == IF Shortfall > 0 THEN 1 ELSE 0
DerivedSeeds == <<PREFIX, find_program_address(<<PREFIX>>, "router").bump_seed>>

\* C13: CreateAccount(size) with its accounts bound and the rent sysvar read
\* first transfers exactly 3 x shortfall from the payer to the new account
\* when the shortfall is positive, and issues no transfer when it is 0; once
\* that has gone through it allocates size bytes for the new account, and
\* once that has gone through it assigns the account to the program, in that
\* order and nothing else, both signed with the derived authority's seeds.
\* After a successful CreateAccount all of it was carried out and the new
\* account holds at least the rent-exempt minimum for size.
C13_CreateAccount ==
    CreateBound =>
        LET new == last.accounts[1]
            payer == last.accounts[2]
            calls == last.calls
        IN /\ Len(calls) >= Funding /\ Len(calls) <= Funding + 2
           /\ Shortfall > 0 =>
                 /\ calls[1].kind = "transfer"
                 /\ calls[1].from = payer /\ calls[1].to = new
                 /\ calls[1].lamports = 3 * Shortfall
           /\ \A i \in 1..Len(calls) : calls[i].kind = "transfer" => (i = 1 /\ Shortfall > 0)
           /\ (Shortfall > 0 => calls[1].outcome = "Ok") <=> Len(calls) >= Funding + 1
           /\ Len(calls) >= Funding + 1 =>
                 /\ calls[Funding + 1].kind = "allocate"
                 /\ calls[Funding + 1].pubkey = new
                 /\ calls[Funding + 1].space = last.args.size
                 /\ calls[Funding + 1].signed /\ calls[Funding + 1].seeds = DerivedSeeds
                 /\ calls[Funding + 1].outcome = "Ok" <=> Len(calls) = Funding + 2
           /\ Len(calls) = Funding + 2 =>
                 /\ calls[Funding + 2].kind = "assign"
                 /\ calls[Funding + 2].pubkey = new
                 /\ calls[Funding + 2].owner = "router"
                 /\ calls[Funding + 2].signed /\ calls[Funding + 2].seeds = DerivedSeeds
           /\ last.result = "Ok" =>
                 /\ Len(calls) = Funding + 2
                 /\ \A i \in 1..Len(calls) : calls[i].outcome = "Ok"
                 /\ sys.lamports[new] = last.sys_pre.lamports[new] + 3 * Shortfall
                 /\ sys.lamports[payer] = last.sys_pre.lamports[payer] - 3 * Shortfall
                 /\ sys.lamports[new] >= minimum_balance(last.args.rent, last.args.size)
                 /\ sys.data_len[new] = last.args.size
                 /\ sys.owner[new] = "router"

\* a successful CreateAccount(2) whose new account held 1 of the 3 lamports
\* it needs: 6 lamports moved, then allocate, then assign
C13_Witness ==
    /\ CreateBound
    /\ last.result = "Ok"
    /\ last.args.size = 2
    /\ last.sys_pre.lamports["programAuthority"] = 1
    /\ Shortfall = 2
    /\ Len(last.calls) = 3
    /\ last.calls[1].lamports = 6
    /\ last.calls[2].kind = "allocate"
    /\ last.calls[3].kind = "assign"
    /\ sys.lamports["programAuthority"] = 7
    /\ sys.owner["programAuthority"] = "router"

\* a successful CreateAccount that found no shortfall and moved no lamports
C13_NoShortfallReached ==
    /\ CreateBound
    /\ last.result = "Ok"
    /\ Shortfall = 0
    /\ Len(last.calls) = 2
    /\ sys.lamports = last.sys_pre.lamports

\* the number of accounts each positionally binding handler requires
Required ==
    [BeforeTransfer |-> 5, AfterTransfer |-> 6, CreateAccount |-> 4, Harvest |-> 4]
PositionalHandlers == {"BeforeTransfer", "AfterTransfer", "CreateAccount", "Harvest"}

\* C14: BeforeTransfer, AfterTransfer, CreateAccount and Harvest called with
\* fewer than 5, 6, 4 and 4 accounts fail with NotEnoughAccountKeys having
\* issued no invocation (no token transfer, lamport transfer, allocation or
\* assignment), and no token balance or system account changes; called with
\* at least that many they do not fail with NotEnoughAccountKeys, and what
\* they invoke first is addressed by position in the account list.
C14_TooFewAccounts ==
    last.op \in PositionalHandlers =>
        /\ Len(last.accounts) < Required[last.op] =>
              /\ last.result = NotEnoughAccountKeys
              /\ last.calls = <<>>
              /\ last.work = last.pre
              /\ bal = last.pre
              /\ last.op = "CreateAccount" => (last.sys_work = last.sys_pre /\ sys = last.sys_pre)
        /\ Len(last.accounts) >= Required[last.op] =>
              /\ last.result # NotEnoughAccountKeys
              /\ Len(last.calls) >= 1 =>
                    CASE last.op = "BeforeTransfer" ->
                            /\ last.calls[1].source = last.accounts[3]
                            /\ last.calls[1].destination = last.accounts[4]
                            /\ last.calls[1].authority = last.accounts[5]
                      [] last.op = "AfterTransfer" ->
                            /\ last.calls[1].source = last.accounts[3]
                            /\ last.calls[1].destination = last.accounts[5]
                            /\ last.calls[1].authority = last.accounts[2]
                      [] last.op = "Harvest" ->
                            /\ last.calls[1].source = last.accounts[3]
                            /\ last.calls[1].destination = last.accounts[4]
                            /\ last.calls[1].authority = last.accounts[2]
                      [] last.op = "CreateAccount" ->
                            last.calls[1].kind = "transfer" =>
                                /\ last.calls[1].from = last.accounts[2]
                                /\ last.calls[1].to = last.accounts[1]

\* AfterTransfer with five accounts, the program holding tokens to move, has
\* failed with NotEnoughAccountKeys and moved nothing
C14_Witness ==
    /\ last.op = "AfterTransfer"
    /\ Len(last.accounts) = 5
    /\ last.pre["progKin"] > 0
    /\ last.result = NotEnoughAccountKeys
    /\ last.calls = <<>>
    /\ bal = last.pre

\* CreateAccount with three accounts has failed and invoked nothing
C14_CreateAccountReached ==
    /\ last.op = "CreateAccount"
    /\ Len(last.accounts) = 3
    /\ last.result = NotEnoughAccountKeys
    /\ last.calls = <<>>

====
